---- MODULE Spec2Model ----
(***************************************************************************)
(* MASRTrainer (masr/trainer.py): the training and checkpoint lifecycle.   *)
(*                                                                         *)
(* One process runs train(); the checkpoint root of one model variant is   *)
(* the disk.  A directory holds optimizer.pt, model.pt and model.state.    *)
(* Parameter and optimizer blobs are identified by the run that produced   *)
(* them and the number of optimizer steps of that run (step 0 is the       *)
(* freshly constructed model).  Error rates are integers in units of 1e-7, *)
(* losses in units of 1e-6, so that the "%f" of the state record (six      *)
(* decimals) is a real rounding.                                           *)
(*                                                                         *)
(* The batch source of an epoch yields NumBatches batches; their indices   *)
(* are BatchIdOf(0), BatchIdOf(1), ...: the indices in between, on which   *)
(* the loop does nothing but the training step, are not stepped through.   *)
(***************************************************************************)
EXTENDS Integers, Sequences, FiniteSets, TLC

\* ------------------------------------------------------------------ bounds
MaxNumEpoch == 1        \* num_epoch is drawn from 0..MaxNumEpoch
NumBatches == 3         \* len(train_loader)
MaxRuns == 2            \* invocations of train() on the same checkpoint root
MaxRanks == 2           \* torch.cuda.device_count() is drawn from 1..MaxRanks
MaxCalls == 5           \* save_model calls of the stand-alone checkpoint store
MaxSaveEpoch == 4       \* their epoch argument is drawn from 0..MaxSaveEpoch
MaxDecodeCalls == 8     \* decoder_result calls on one trainer

\* ------------------------------------------------------- program constants
LogPeriod == 100
SavePeriod == 10000
KeepBack == 3
Micro == 1000000          \* "%f": six decimals
RateOne == 10 * Micro     \* 1.0 as an error rate (units of 1e-7)
LossOne == 1 * Micro      \* 1.0 as a loss (units of 1e-6)
InitLastEpoch == 0 - 1
InitBestErrorRate == RateOne              \* best_error_rate = 1.0
DefaultErrorRate == RateOne               \* save_model(error_rate=1.0)
DefaultTestLoss == 1000 * LossOne         \* save_model(test_loss=1e3)
DefaultErrorType == "cer"                 \* save_model(error_type='cer')

\* what the evaluator may return: (error rate, loss); 0.2000004, 0.5 and 1.5
EvalOutcomes ==
    { <<2000004, 700000>>, <<5000000, 1200000>>, <<15000000, 3000000>> }
MetricsTypes == {"cer", "wer"}

\* index of the k-th batch that is stepped through: 0, 10000, 10001, ...
BatchIdOf(k) == IF k = 0 THEN 0 ELSE SavePeriod + (k - 1)

\* ------------------------------------------------------------------ numbers
Abs(x) == IF x < 0 THEN 0 - x ELSE x

\* '%f' % v followed by reading the text back: v, held in units of 1/unitsPerOne,
\* is rounded to six decimals (half to even).
FormatF(v, unitsPerOne) ==
    LET q == unitsPerOne \div Micro
        lo == (v \div q) * q
        r == v - lo
    IN  IF 2 * r < q THEN lo
        ELSE IF 2 * r > q THEN lo + q
        ELSE IF ((lo \div q) % 2) = 0 THEN lo ELSE lo + q

\* -------------------------------------------------------------------- disk
Files == {"opt", "mpt", "st"}   \* optimizer.pt, model.pt, model.state

\* pre: the parameter names of a model.pt carry the prefix of the wrapper
NoFile == [k |-> "none", run |-> 0, step |-> 0, pre |-> FALSE,
           last_epoch |-> 0, key |-> "", rate |-> 0, loss |-> 0]
TornFile == [NoFile EXCEPT !.k = "torn"]
Blob(id) == [NoFile EXCEPT !.k = "ok", !.run = id.run, !.step = id.step]
\* '{"last_epoch": %d, "test_%s": %f, "test_loss": %f}'; run and step name the
\* parameters the record was written with (not part of the text)
StateRecord(epoch, error_type, error_rate, test_loss, id) ==
    [k |-> "ok", run |-> id.run, step |-> id.step, pre |-> FALSE,
     last_epoch |-> epoch, key |-> error_type,
     rate |-> FormatF(error_rate, RateOne), loss |-> FormatF(test_loss, LossOne)]

NoDir == [ex |-> FALSE, opt |-> NoFile, mpt |-> NoFile, st |-> NoFile]

Last == <<"last_model", 0>>
Best == <<"best_model", 0>>
EpochDir(n) == <<"epoch", n>>
NoPath == <<"none", 0>>

\* the numbered directories the runs below can name
MaxDirEpoch == IF MaxNumEpoch > MaxSaveEpoch THEN MaxNumEpoch ELSE MaxSaveEpoch
Numbered == { EpochDir(n) : n \in 0..MaxDirEpoch }
Dirs == {Last, Best} \cup Numbered

EmptyDisk == [d \in Dirs |-> NoDir]

\* os.path.exists(dir), os.path.exists(os.path.join(dir, file))
DirExists(dk, d) == d \in DOMAIN dk /\ dk[d].ex
FileExists(dk, d, f) == DirExists(dk, d) /\ dk[d][f].k # "none"

\* the primitive file-system steps a save is made of
OpMakedirs(d) == [op |-> "makedirs", dir |-> d, f |-> "opt", val |-> NoFile]
OpOpen(d, f) == [op |-> "open", dir |-> d, f |-> f, val |-> NoFile]
OpClose(d, f, v) == [op |-> "close", dir |-> d, f |-> f, val |-> v]
OpUnlink(d, f) == [op |-> "unlink", dir |-> d, f |-> f, val |-> NoFile]
OpRmdir(d) == [op |-> "rmdir", dir |-> d, f |-> "opt", val |-> NoFile]

ApplyOp(dk, o) ==
    CASE o.op = "makedirs" -> [dk EXCEPT ![o.dir].ex = TRUE]
      [] o.op = "open"     -> [dk EXCEPT ![o.dir][o.f] = TornFile]
      [] o.op = "close"    -> [dk EXCEPT ![o.dir][o.f] = o.val]
      [] o.op = "unlink"   -> [dk EXCEPT ![o.dir][o.f] = NoFile]
      [] o.op = "rmdir"    -> [dk EXCEPT ![o.dir] = NoDir]

\* the first n steps of ops, applied in order
RECURSIVE ApplyOps(_, _, _)
ApplyOps(dk, ops, n) ==
    IF n = 0 THEN dk ELSE ApplyOp(ApplyOps(dk, ops, n - 1), ops[n])

\* the orders in which a directory's entries may be listed
Orders == { s \in [1..3 -> Files] : \A i, j \in 1..3 : i # j => s[i] # s[j] }
SomeOrder == <<"opt", "mpt", "st">>

\* torch.save / open(...,'w'): the file is created or truncated, then written
WriteOps(d, f, v) == << OpOpen(d, f), OpClose(d, f, v) >>

RECURSIVE UnlinkOps(_, _, _, _)
UnlinkOps(dk, d, ord, i) ==
    IF i > 3 THEN << >>
    ELSE (IF dk[d][ord[i]].k # "none" THEN << OpUnlink(d, ord[i]) >> ELSE << >>)
         \o UnlinkOps(dk, d, ord, i + 1)

\* shutil.rmtree(d): entry after entry, then the directory; nothing if absent
RmtreeOps(dk, d, ord) ==
    IF DirExists(dk, d) THEN UnlinkOps(dk, d, ord, 1) \o << OpRmdir(d) >> ELSE << >>

\* (variant: only the two blobs are copied)
CopytreeOpsBlobsOnly(dst, ord, vals) ==
    << OpMakedirs(dst) >> \o WriteOps(dst, "opt", vals.opt) \o WriteOps(dst, "mpt", vals.mpt)

\* shutil.copytree(src, dst), src holding the three files just written
CopytreeOps(dst, ord, vals) ==
    << OpMakedirs(dst) >>
    \o WriteOps(dst, ord[1], vals[ord[1]])
    \o WriteOps(dst, ord[2], vals[ord[2]])
    \o WriteOps(dst, ord[3], vals[ord[3]])

\* save_model's arguments
SaveArgs(epoch, model, optimizer, error_type, error_rate, test_loss, best_model) ==
    [epoch |-> epoch, model |-> model, optimizer |-> optimizer,
     error_type |-> error_type, error_rate |-> error_rate,
     test_loss |-> test_loss, best_model |-> best_model]

SavedFiles(a) ==
    [opt |-> Blob(a.optimizer),
     mpt |-> [Blob(a.model) EXCEPT !.pre = a.model.pre],   \* model.state_dict()
     st |-> StateRecord(a.epoch, a.error_type, a.error_rate, a.test_loss, a.model)]

\* (variant: the directory four epochs back is the one removed)
OldEpochFurther(epoch) == epoch - KeepBack - 1
\* epoch - 3: the numbered directory save_model removes
OldEpoch(epoch) == epoch - KeepBack

\* the file-system steps of save_model(a) on disk dk, in order
SaveOps(dk, a, ord) ==
    LET v == SavedFiles(a)
        model_path == EpochDir(a.epoch)
        old_model_path == EpochDir(OldEpoch(a.epoch))
    IN  IF ~a.best_model
        THEN << OpMakedirs(model_path) >>
             \o WriteOps(model_path, "opt", v.opt)
             \o WriteOps(model_path, "mpt", v.mpt)
             \o WriteOps(model_path, "st", v.st)
             \o RmtreeOps(dk, Last, ord)
             \o CopytreeOps(Last, ord, v)
             \o (IF DirExists(dk, old_model_path)
                 THEN RmtreeOps(dk, old_model_path, ord) ELSE << >>)
        ELSE << OpMakedirs(Best) >>
             \o WriteOps(Best, "mpt", v.mpt) \o WriteOps(Best, "opt", v.opt)
             \o WriteOps(Best, "st", v.st)

\* save_model(a) run to its end
SaveModel(dk, a) ==
    LET ops == SaveOps(dk, a, SomeOrder) IN ApplyOps(dk, ops, Len(ops))

\* the disks save_model(a) can leave when it is stopped after at least one and
\* before its last file-system step
PartialSaves(dk, a) ==
    { ApplyOps(dk, SaveOps(dk, a, ord), n) :
        ord \in Orders, n \in 1..(Len(SaveOps(dk, a, SomeOrder)) - 1) }

\* ----------------------------------------------------------------- process
VARIABLES
    disk,            \* the checkpoint root of the model variant
    pc,              \* where the process is in train()
    runs,            \* invocations of train() so far
    metrics_type,    \* self.metrics_type
    num_epoch, resume_model, nranks, local_rank,
    model, optimizer,        \* the parameters / optimizer state held in memory
    last_epoch, best_error_rate,
    sched,           \* scheduler.last_epoch
    epoch, epochBound,       \* the loop variable, and whether it is bound
    iter,            \* the next value of range(last_epoch, num_epoch)
    batch,           \* position in enumerate(train_loader)
    c, l, clBound,   \* the evaluation result, and whether c, l are bound
    mode,            \* model.train() / model.eval()
    nTrained, nEval, nSaves, \* optimizer steps, evaluations, save_model calls of this run
    out,             \* the log lines and scalar records of the last step
    intr,            \* what the process held when the interrupt arrived
    pretrained_model,        \* the pretrained_model argument
    pretrained_dict,         \* the parameter names in its model.pt, or Missing
    params,          \* per parameter of the model, where its value comes from
    decoder, beam_search_decoder,    \* self.decoder, self.beam_search_decoder
    platform_system,         \* platform.system()
    lib_installed,           \* masr.decoders.beam_search_decoder can be imported
    nDecode, nWarned, nConstruct,    \* decoder_result calls, fallback warnings,
                                     \* imports of the beam-search decoder so far
    used             \* the decoder the last call decoded with

args == <<num_epoch, resume_model, nranks, local_rank>>
loopv == <<epoch, epochBound, iter, batch>>
evalv == <<c, l, clBound>>
counts == <<nTrained, nEval, nSaves>>
loadv == <<pretrained_model, pretrained_dict, params>>
\* what the training loop does not touch
decv == <<decoder, beam_search_decoder, platform_system, lib_installed,
          nDecode, nWarned, nConstruct, used>>
restv == <<loadv, decv>>
vars == <<disk, pc, runs, metrics_type, args, model, optimizer, last_epoch,
          best_error_rate, sched, loopv, evalv, mode, counts, out, intr, restv>>

\* the parameters of the model, and a name that is not one of them
ModelParams == {"conv.weight", "fc.weight"}
OtherParam == "head.weight"
\* a name of a state_dict: pre when it starts with 'module.'
ParamName(pre, n) == [pre |-> pre, n |-> n]
\* model = DistributedDataParallel(model) when nranks > 1
Wrapped(nr) == nr > 1
\* the names of container.state_dict(): those of the wrapper carry 'module.'
KeysPrefixed(container, nr) == container = "model" /\ Wrapped(nr)
\* the names in a model.pt; Missing when the file does not exist
Missing == [k |-> "none", names |-> {}]
\* a freshly constructed model
FreshParams == [n \in ModelParams |-> "init"]
\* a trainer constructed with the default decoder that has decoded nothing
Decoders == {"ctc_greedy", "ctc_beam_search"}
Platforms == {"Linux", "Darwin", "Windows"}
NoDecoding ==
    /\ decoder = "ctc_greedy" /\ beam_search_decoder = "None"
    /\ platform_system = "Linux" /\ lib_installed = FALSE
    /\ nDecode = 0 /\ nWarned = 0 /\ nConstruct = 0 /\ used = "none"
\* train() called without pretrained_model
NoPretrained ==
    /\ pretrained_model = NoPath /\ pretrained_dict = Missing /\ params = FreshParams

FreshId(r) == [run |-> r, step |-> 0]
NoIntr == [at |-> "", epoch |-> 0, c |-> 0, l |-> 0, clBound |-> FALSE, nSaves |-> 0]

\* a process that is not running: every local at a fixed value
Idle ==
    /\ pc = "idle"
    /\ num_epoch = 0 /\ resume_model = NoPath /\ nranks = 1 /\ local_rank = 0
    /\ model = FreshId(0) /\ optimizer = FreshId(0)
    /\ last_epoch = InitLastEpoch /\ best_error_rate = InitBestErrorRate
    /\ sched = 0
    /\ epoch = 0 /\ epochBound = FALSE /\ iter = 0 /\ batch = 0
    /\ c = 0 /\ l = 0 /\ clBound = FALSE
    /\ mode = "train"
    /\ nTrained = 0 /\ nEval = 0 /\ nSaves = 0
    /\ out = {}
    /\ intr = NoIntr

Init ==
    /\ disk = EmptyDisk
    /\ runs = 0
    /\ metrics_type \in MetricsTypes
    /\ Idle
    /\ NoPretrained
    /\ NoDecoding

\* train(), lines 237-310: rank detection, data, model and optimizer construction
StartTrain ==
    /\ pc = "idle"
    /\ runs < MaxRuns
    /\ \E ne \in 0..MaxNumEpoch, rm \in {NoPath} \cup Dirs, nr \in 1..MaxRanks :
         \E lr \in 0..(nr - 1) :
            /\ num_epoch' = ne
            /\ resume_model' = rm
            /\ nranks' = nr
            /\ local_rank' = IF nr > 1 THEN lr ELSE 0
    /\ runs' = runs + 1
    /\ model' = FreshId(runs + 1)
    /\ optimizer' = FreshId(runs + 1)
    /\ out' = {"info:train_data"}
    /\ pretrained_model' = NoPath /\ pretrained_dict' = Missing
    /\ params' = FreshParams
    /\ pc' = "pretrained"
    /\ UNCHANGED <<disk, metrics_type, last_epoch, best_error_rate, sched, loopv,
                   evalv, mode, counts, intr>>
    /\ UNCHANGED decv

\* model.state_dict().keys() of a container
StateDictNames(container, nr) ==
    { ParamName(KeysPrefixed(container, nr), n) : n \in ModelParams }
\* {k: v for k, v in pretrained_dict.items() if k in model_dict}
FilterPretrained(pd, md) == pd \cap md
\* model_dict.update(pretrained_dict); model.load_state_dict(model_dict): the
\* parameters of the model after the pretrained load
PretrainedUpdate(ps, pd, nr) ==
    LET md == StateDictNames("model", nr)
        kept == FilterPretrained(pd, md)
    IN  [n \in ModelParams |->
            IF ParamName(KeysPrefixed("model", nr), n) \in kept THEN "pre" ELSE ps[n]]

\* train(), lines 312-321: the pretrained model
LoadPretrained ==
    /\ pc = "pretrained"
    /\ IF pretrained_model = NoPath
       THEN /\ params' = params
            /\ out' = {}
            /\ pc' = "resume"
       ELSE IF pretrained_dict.k = "none"
       THEN /\ params' = params      \* assert os.path.exists(.../model.pt)
            /\ out' = {}
            /\ pc' = "failed"
       ELSE /\ params' = PretrainedUpdate(params, pretrained_dict.names, nranks)
            /\ out' = {"info:pretrained"}
            /\ pc' = "resume"
    /\ UNCHANGED <<disk, runs, metrics_type, args, model, optimizer, last_epoch,
                   best_error_rate, sched, loopv, evalv, mode, counts, intr,
                   pretrained_model, pretrained_dict>>
    /\ UNCHANGED decv

\* (variant: last_model is preferred to the path the caller gave)
ResumeSourcePrefersLast(dk, rm) ==
    IF FileExists(dk, Last, "mpt") /\ FileExists(dk, Last, "opt") THEN Last ELSE rm

\* the directory the resume block reads, NoPath when it starts from scratch
ResumeSource(dk, rm) ==
    IF rm # NoPath THEN rm
    ELSE IF FileExists(dk, Last, "mpt") /\ FileExists(dk, Last, "opt") THEN Last
    ELSE NoPath

\* the container the resume block loads into: model.module if nranks > 1
LoadContainer(nr) == IF nr > 1 THEN "module" ELSE "model"
\* container.load_state_dict(blob): the names must be those of the container
LoadsInto(blob, nr) == blob.pre = KeysPrefixed(LoadContainer(nr), nr)

\* (variant: each blob is looked for only when it is loaded)
ResumeReachLateAsserts(dk, d) ==
    IF ~FileExists(dk, d, "mpt") THEN "assert_model"
    ELSE IF dk[d].mpt.k = "torn" \/ ~LoadsInto(dk[d].mpt, nranks) THEN "load_model"
    ELSE IF ~FileExists(dk, d, "opt") THEN "load_optimizer"
    ELSE IF dk[d].opt.k = "torn" THEN "load_optimizer"
    ELSE IF dk[d].st.k # "ok" THEN "read_state"
    ELSE "done"

\* how far the resume block gets on directory d: the asserts, the two loads and
\* the read of model.state
ResumeReach(dk, d) ==
    IF ~FileExists(dk, d, "mpt") THEN "assert_model"
    ELSE IF ~FileExists(dk, d, "opt") THEN "assert_optimizer"
    ELSE IF dk[d].mpt.k = "torn" \/ ~LoadsInto(dk[d].mpt, nranks) THEN "load_model"
    ELSE IF dk[d].opt.k = "torn" THEN "load_optimizer"
    ELSE IF dk[d].st.k # "ok" THEN "read_state"
    ELSE "done"

\* last_epoch = json_data['last_epoch'] - 1
ResumedLastEpoch(st) == st.last_epoch - 1

\* best_error_rate = abs(json_data['test_cer' | 'test_wer'])
ResumedBestErrorRate(st) ==
    IF st.key \in {"cer", "wer"} THEN Abs(st.rate) ELSE InitBestErrorRate

\* StepLR(optimizer, step_size=1, gamma=0.93, last_epoch): the constructor takes
\* one step
NewScheduler(le) == le + 1

\* train(), lines 323-355: the resume block, the scheduler, the first scalar
ResumeBlock ==
    /\ pc = "resume"
    /\ LET src == ResumeSource(disk, resume_model)
           reach == IF src = NoPath THEN "scratch" ELSE ResumeReach(disk, src)
           le == IF reach = "done" THEN ResumedLastEpoch(disk[src].st)
                 ELSE InitLastEpoch
       IN  /\ model' = IF reach \in {"load_optimizer", "read_state", "done"}
                       THEN [run |-> disk[src].mpt.run, step |-> disk[src].mpt.step]
                       ELSE model
           /\ params' = IF reach \in {"load_optimizer", "read_state", "done"}
                        THEN [n \in ModelParams |-> "res"]
                        ELSE params
           /\ optimizer' = IF reach \in {"read_state", "done"}
                           THEN [run |-> disk[src].opt.run, step |-> disk[src].opt.step]
                           ELSE optimizer
           /\ resume_model' = src    \* if resume_model is None: resume_model = last_model_dir
           /\ last_epoch' = le
           /\ best_error_rate' = IF reach = "done"
                                 THEN ResumedBestErrorRate(disk[src].st)
                                 ELSE InitBestErrorRate
           /\ IF reach \in {"scratch", "done"}
              THEN /\ sched' = NewScheduler(le)
                   /\ iter' = le
                   /\ out' = (IF reach = "done" THEN {"info:resumed"} ELSE {})
                             \cup (IF local_rank = 0 THEN {"scalar:Train/lr"} ELSE {})
                   /\ pc' = "for"
              ELSE /\ UNCHANGED <<sched, iter>>
                   /\ out' = {}
                   /\ pc' = "failed"
    /\ UNCHANGED <<disk, runs, metrics_type, num_epoch, nranks, local_rank,
                   epoch, epochBound, batch, evalv, mode, counts, intr,
                   pretrained_model, pretrained_dict>>
    /\ UNCHANGED decv

\* for epoch in range(last_epoch, num_epoch): the next value
ForNext ==
    /\ pc = "for"
    /\ iter < num_epoch
    /\ epoch' = iter
    /\ epochBound' = TRUE
    /\ iter' = iter + 1
    /\ pc' = "inc"
    /\ out' = {}
    /\ UNCHANGED <<disk, runs, metrics_type, args, model, optimizer, last_epoch,
                   best_error_rate, sched, batch, evalv, mode, counts, intr>>
    /\ UNCHANGED restv

\* the range is exhausted: train returns
ForExit ==
    /\ pc = "for"
    /\ iter >= num_epoch
    /\ pc' = "returned"
    /\ out' = {}
    /\ UNCHANGED <<disk, runs, metrics_type, args, model, optimizer, last_epoch,
                   best_error_rate, sched, loopv, evalv, mode, counts, intr>>
    /\ UNCHANGED restv

\* epoch += 1, and the batch loop starts
EpochInc ==
    /\ pc = "inc"
    /\ epoch' = epoch + 1
    /\ batch' = 0
    /\ pc' = "forward"
    /\ out' = {}
    /\ UNCHANGED <<disk, runs, metrics_type, args, model, optimizer, last_epoch,
                   best_error_rate, sched, epochBound, iter, evalv, mode, counts, intr>>
    /\ UNCHANGED restv

\* out, out_lens = model(inputs, input_lens); loss = ctc_loss(...).mean()
Forward ==
    /\ pc = "forward"
    /\ pc' = "backward"
    /\ out' = {}
    /\ UNCHANGED <<disk, runs, metrics_type, args, model, optimizer, last_epoch,
                   best_error_rate, sched, loopv, evalv, mode, counts, intr>>
    /\ UNCHANGED restv

\* loss.backward()
Backward ==
    /\ pc = "backward"
    /\ pc' = "opt_step"
    /\ out' = {}
    /\ UNCHANGED <<disk, runs, metrics_type, args, model, optimizer, last_epoch,
                   best_error_rate, sched, loopv, evalv, mode, counts, intr>>
    /\ UNCHANGED restv

\* (variant: only the coordinator steps the optimizer)
OptStepCoordinatorOnly ==
    /\ pc = "opt_step"
    /\ nTrained' = IF local_rank = 0 THEN nTrained + 1 ELSE nTrained
    /\ model' = [run |-> runs, step |-> nTrained']
    /\ optimizer' = [run |-> runs, step |-> nTrained']
    /\ pc' = "zero_grad"
    /\ out' = {}
    /\ UNCHANGED <<disk, runs, metrics_type, args, last_epoch, best_error_rate,
                   sched, loopv, evalv, mode, nEval, nSaves, intr>>
    /\ UNCHANGED restv
\* optimizer.step(): parameters and optimizer state become those of this run's
\* next step
OptStep ==
    /\ pc = "opt_step"
    /\ nTrained' = nTrained + 1
    /\ model' = [run |-> runs, step |-> nTrained + 1]
    /\ optimizer' = [run |-> runs, step |-> nTrained + 1]
    /\ pc' = "zero_grad"
    /\ out' = {}
    /\ UNCHANGED <<disk, runs, metrics_type, args, last_epoch, best_error_rate,
                   sched, loopv, evalv, mode, nEval, nSaves, intr>>
    /\ UNCHANGED restv

\* optimizer.zero_grad()
ZeroGrad ==
    /\ pc = "zero_grad"
    /\ pc' = "batch_tail"
    /\ out' = {}
    /\ UNCHANGED <<disk, runs, metrics_type, args, model, optimizer, last_epoch,
                   best_error_rate, sched, loopv, evalv, mode, counts, intr>>
    /\ UNCHANGED restv

\* if batch_id % 100 == 0 and local_rank == 0
LogsBatch(batch_id, rank) == batch_id % LogPeriod = 0 /\ rank = 0
\* (variant: batch 0 is not left out)
SavesBatchFromZero(batch_id, rank) == batch_id % SavePeriod = 0 /\ rank = 0
\* if batch_id % 10000 == 0 and batch_id != 0 and local_rank == 0
SavesBatch(batch_id, rank) == batch_id % SavePeriod = 0 /\ batch_id # 0 /\ rank = 0

\* (variant: the wrapper itself is passed to save_model)
SavedContainerWrapper(nr) == "model"
\* what the call sites pass as model: model.module if nranks > 1, else model
SavedContainer(nr) == IF nr > 1 THEN "module" ELSE "model"
\* the model argument of a save_model call of train
Passed(m, nr) ==
    [run |-> m.run, step |-> m.step, pre |-> KeysPrefixed(SavedContainer(nr), nr)]

\* the mid-epoch call: save_model(epoch=epoch, model=..., optimizer=optimizer)
MidSaveArgs ==
    SaveArgs(epoch, Passed(model, nranks), optimizer, DefaultErrorType, DefaultErrorRate,
             DefaultTestLoss, FALSE)
\* (variant: best_model=True is not passed)
BestSaveArgsNotBest ==
    SaveArgs(epoch, Passed(model, nranks), optimizer, metrics_type, c, l, FALSE)
\* the best-model call of the end of the epoch
BestSaveArgs ==
    SaveArgs(epoch, Passed(model, nranks), optimizer, metrics_type, c, l, TRUE)
\* (variant: the end-of-epoch call writes best_model only)
LastSaveArgsBestOnly ==
    SaveArgs(epoch, Passed(model, nranks), optimizer, metrics_type, c, l, TRUE)
\* the end-of-epoch call
LastSaveArgs ==
    SaveArgs(epoch, Passed(model, nranks), optimizer, metrics_type, c, l, FALSE)
\* (variant: the handler does not pass error_rate and test_loss on)
HandlerSaveArgsDefaults(cc, ll) ==
    SaveArgs(epoch, Passed(model, nranks), optimizer, DefaultErrorType, DefaultErrorRate,
             DefaultTestLoss, FALSE)
\* the call of the KeyboardInterrupt handler, after c, l have been resolved
HandlerSaveArgs(cc, ll) ==
    SaveArgs(epoch, Passed(model, nranks), optimizer, DefaultErrorType, cc, ll, FALSE)

BatchLogOut ==
    IF LogsBatch(BatchIdOf(batch), local_rank)
    THEN {"info:train", "scalar:Train/Loss"} ELSE {}

\* the rest of the batch: the periodic log line, the periodic checkpoint, and on
\* to the next batch or to the end of the epoch
BatchTail ==
    /\ pc = "batch_tail"
    /\ IF SavesBatch(BatchIdOf(batch), local_rank)
       THEN /\ disk' = SaveModel(disk, MidSaveArgs)
            /\ nSaves' = nSaves + 1
            /\ out' = BatchLogOut \cup {"info:saved"}
       ELSE /\ UNCHANGED <<disk, nSaves>>
            /\ out' = BatchLogOut
    /\ IF batch + 1 < NumBatches
       THEN /\ batch' = batch + 1
            /\ pc' = "forward"
       ELSE /\ batch' = batch
            /\ pc' = IF local_rank = 0 THEN "eval_mode" ELSE "sched_step"
    /\ UNCHANGED <<runs, metrics_type, args, model, optimizer, last_epoch,
                   best_error_rate, sched, epoch, epochBound, iter, evalv, mode,
                   nTrained, nEval, intr>>
    /\ UNCHANGED restv

\* model.eval()
EvalMode ==
    /\ pc = "eval_mode"
    /\ mode' = "eval"
    /\ pc' = "test"
    /\ out' = {"info:rule"}
    /\ UNCHANGED <<disk, runs, metrics_type, args, model, optimizer, last_epoch,
                   best_error_rate, sched, loopv, evalv, counts, intr>>
    /\ UNCHANGED restv

\* c, l = self.__test(...)
Test ==
    /\ pc = "test"
    /\ \E r \in EvalOutcomes :
         /\ c' = r[1]
         /\ l' = r[2]
    /\ clBound' = TRUE
    /\ nEval' = nEval + 1
    /\ pc' = "test_scalars"
    /\ out' = {"info:test_batch"}
    /\ UNCHANGED <<disk, runs, metrics_type, args, model, optimizer, last_epoch,
                   best_error_rate, sched, loopv, mode, nTrained, nSaves, intr>>
    /\ UNCHANGED restv

\* the test log line, writer.add_scalar('Test/Cer'), ('Test/Loss')
TestScalars ==
    /\ pc = "test_scalars"
    /\ pc' = "train_mode"
    /\ out' = {"info:test", "scalar:Test/Cer", "scalar:Test/Loss"}
    /\ UNCHANGED <<disk, runs, metrics_type, args, model, optimizer, last_epoch,
                   best_error_rate, sched, loopv, evalv, mode, counts, intr>>
    /\ UNCHANGED restv

\* model.train()
TrainMode ==
    /\ pc = "train_mode"
    /\ mode' = "train"
    /\ pc' = "lr_scalar"
    /\ out' = {}
    /\ UNCHANGED <<disk, runs, metrics_type, args, model, optimizer, last_epoch,
                   best_error_rate, sched, loopv, evalv, counts, intr>>
    /\ UNCHANGED restv

\* writer.add_scalar('Train/lr', ..., epoch)
LrScalar ==
    /\ pc = "lr_scalar"
    /\ pc' = "best"
    /\ out' = {"scalar:Train/lr"}
    /\ UNCHANGED <<disk, runs, metrics_type, args, model, optimizer, last_epoch,
                   best_error_rate, sched, loopv, evalv, mode, counts, intr>>
    /\ UNCHANGED restv

\* (variant: a tie does not count as best)
IsBestStrict(cc, best) == cc < best
\* if c <= best_error_rate
IsBest(cc, best) == cc <= best

\* the best-model selection
BestStep ==
    /\ pc = "best"
    /\ IF IsBest(c, best_error_rate)
       THEN /\ best_error_rate' = c
            /\ disk' = SaveModel(disk, BestSaveArgs)
            /\ nSaves' = nSaves + 1
            /\ out' = {"info:saved"}
       ELSE /\ UNCHANGED <<disk, best_error_rate, nSaves>>
            /\ out' = {}
    /\ pc' = "last_save"
    /\ UNCHANGED <<runs, metrics_type, args, model, optimizer, last_epoch, sched,
                   loopv, evalv, mode, nTrained, nEval, intr>>
    /\ UNCHANGED restv

\* (variant: the schedule is advanced with the end-of-epoch checkpoint)
LastSaveSteps ==
    /\ pc = "last_save"
    /\ disk' = SaveModel(disk, LastSaveArgs)
    /\ nSaves' = nSaves + 1
    /\ sched' = sched + 1
    /\ pc' = "sched_step"
    /\ out' = {"info:saved"}
    /\ UNCHANGED <<runs, metrics_type, args, model, optimizer, last_epoch,
                   best_error_rate, loopv, evalv, mode, nTrained, nEval, intr>>
    /\ UNCHANGED restv

\* the end-of-epoch checkpoint
LastSave ==
    /\ pc = "last_save"
    /\ disk' = SaveModel(disk, LastSaveArgs)
    /\ nSaves' = nSaves + 1
    /\ pc' = "sched_step"
    /\ out' = {"info:saved"}
    /\ UNCHANGED <<runs, metrics_type, args, model, optimizer, last_epoch,
                   best_error_rate, sched, loopv, evalv, mode, nTrained, nEval, intr>>
    /\ UNCHANGED restv

\* (variant: only the coordinator steps the scheduler)
SchedStepCoordinatorOnly ==
    /\ pc = "sched_step"
    /\ sched' = IF local_rank = 0 THEN sched + 1 ELSE sched
    /\ pc' = "for"
    /\ out' = {}
    /\ UNCHANGED <<disk, runs, metrics_type, args, model, optimizer, last_epoch,
                   best_error_rate, loopv, evalv, mode, counts, intr>>
    /\ UNCHANGED restv
\* scheduler.step()
SchedStep ==
    /\ pc = "sched_step"
    /\ sched' = sched + 1
    /\ pc' = "for"
    /\ out' = {}
    /\ UNCHANGED <<disk, runs, metrics_type, args, model, optimizer, last_epoch,
                   best_error_rate, loopv, evalv, mode, counts, intr>>
    /\ UNCHANGED restv

\* the statements of the loop body (batch steps, evaluation, checkpoint writes,
\* scheduler step) before which a KeyboardInterrupt can arrive
LoopPcs == {"forward", "backward", "opt_step", "zero_grad", "batch_tail",
            "eval_mode", "test", "test_scalars", "train_mode", "lr_scalar",
            "best", "last_save", "sched_step"}

Interrupted(at) ==
    [at |-> at, epoch |-> epoch, c |-> c, l |-> l, clBound |-> clBound,
     nSaves |-> nSaves]

\* KeyboardInterrupt between two statements of the loop
Interrupt ==
    /\ pc \in LoopPcs
    /\ intr' = Interrupted(pc)
    /\ pc' = "handler"
    /\ out' = {}
    /\ UNCHANGED <<disk, runs, metrics_type, args, model, optimizer, last_epoch,
                   best_error_rate, sched, loopv, evalv, mode, counts>>
    /\ UNCHANGED restv

\* KeyboardInterrupt inside a save_model call of the loop: the call has done
\* some of its file-system steps
InterruptInSave ==
    /\ \/ /\ pc = "batch_tail"
          /\ SavesBatch(BatchIdOf(batch), local_rank)
          /\ disk' \in PartialSaves(disk, MidSaveArgs)
          /\ out' = BatchLogOut
          /\ UNCHANGED best_error_rate
       \/ /\ pc = "best"
          /\ IsBest(c, best_error_rate)
          /\ best_error_rate' = c
          /\ disk' \in PartialSaves(disk, BestSaveArgs)
          /\ out' = {}
       \/ /\ pc = "last_save"
          /\ disk' \in PartialSaves(disk, LastSaveArgs)
          /\ out' = {}
          /\ UNCHANGED best_error_rate
    /\ nSaves' = nSaves + 1
    /\ intr' = [Interrupted("save:" \o pc) EXCEPT !.nSaves = nSaves + 1]
    /\ pc' = "handler"
    /\ UNCHANGED <<runs, metrics_type, args, model, optimizer, last_epoch, sched,
                   loopv, evalv, mode, nTrained, nEval>>
    /\ UNCHANGED restv

\* the placeholders of the handler: c, l = 1.0, 1e3
PlaceholderRate == RateOne
PlaceholderLoss == 1000 * LossOne

\* except KeyboardInterrupt: the coordinator saves once, the others do nothing
Handler ==
    /\ pc = "handler"
    /\ IF local_rank = 0
       THEN LET cc == IF clBound THEN c ELSE PlaceholderRate
                ll == IF clBound THEN l ELSE PlaceholderLoss
            IN  /\ c' = cc
                /\ l' = ll
                /\ clBound' = TRUE
                /\ disk' = SaveModel(disk, HandlerSaveArgs(cc, ll))
                /\ nSaves' = nSaves + 1
                /\ out' = (IF clBound THEN {"info:wait"} ELSE {}) \cup {"info:saved"}
       ELSE /\ UNCHANGED <<disk, evalv, nSaves>>
            /\ out' = {}
    /\ pc' = "returned"
    /\ UNCHANGED <<runs, metrics_type, args, model, optimizer, last_epoch,
                   best_error_rate, sched, loopv, mode, nTrained, nEval, intr>>
    /\ UNCHANGED restv

\* the process ends: train returned, or an exception left it
Exit ==
    /\ pc \in {"returned", "failed"}
    /\ pc' = "idle"
    /\ num_epoch' = 0 /\ resume_model' = NoPath /\ nranks' = 1 /\ local_rank' = 0
    /\ model' = FreshId(0) /\ optimizer' = FreshId(0)
    /\ last_epoch' = InitLastEpoch /\ best_error_rate' = InitBestErrorRate
    /\ sched' = 0
    /\ epoch' = 0 /\ epochBound' = FALSE /\ iter' = 0 /\ batch' = 0
    /\ c' = 0 /\ l' = 0 /\ clBound' = FALSE
    /\ mode' = "train"
    /\ nTrained' = 0 /\ nEval' = 0 /\ nSaves' = 0
    /\ out' = {}
    /\ intr' = NoIntr
    /\ pretrained_model' = NoPath /\ pretrained_dict' = Missing
    /\ params' = FreshParams
    /\ UNCHANGED <<disk, runs, metrics_type>>
    /\ UNCHANGED decv

Next ==
    \/ StartTrain \/ LoadPretrained \/ ResumeBlock \/ ForNext \/ ForExit \/ EpochInc
    \/ Forward \/ Backward \/ OptStep \/ ZeroGrad \/ BatchTail
    \/ EvalMode \/ Test \/ TestScalars \/ TrainMode \/ LrScalar
    \/ BestStep \/ LastSave \/ SchedStep
    \/ Interrupt \/ InterruptInSave \/ Handler \/ Exit

Spec == Init /\ [][Next]_vars

\* ------------------------------------------------- the checkpoint store alone
\* save_model is a static method: any caller may issue any sequence of calls.
\* nSaves counts the calls; the parameters saved by call n are those of step n.
InitSave ==
    /\ disk = EmptyDisk
    /\ runs = 0
    /\ metrics_type \in MetricsTypes
    /\ pc = "store"
    /\ num_epoch = 0 /\ resume_model = NoPath /\ nranks = 1 /\ local_rank = 0
    /\ model = FreshId(0) /\ optimizer = FreshId(0)
    /\ last_epoch = InitLastEpoch /\ best_error_rate = InitBestErrorRate
    /\ sched = 0
    /\ epoch = 0 /\ epochBound = FALSE /\ iter = 0 /\ batch = 0
    /\ c = 0 /\ l = 0 /\ clBound = FALSE
    /\ mode = "train"
    /\ nTrained = 0 /\ nEval = 0 /\ nSaves = 0
    /\ out = {}
    /\ intr = NoIntr
    /\ NoPretrained
    /\ NoDecoding

SaveCall ==
    /\ pc = "store"
    /\ nSaves < MaxCalls
    /\ \E e \in 0..MaxSaveEpoch, b \in BOOLEAN :
         /\ epoch' = e
         /\ disk' = SaveModel(disk, SaveArgs(e, [run |-> 0, step |-> nSaves + 1,
                                                 pre |-> FALSE],
                                             [run |-> 0, step |-> nSaves + 1],
                                             metrics_type, DefaultErrorRate,
                                             DefaultTestLoss, b))
    /\ nSaves' = nSaves + 1
    /\ model' = [run |-> 0, step |-> nSaves + 1]
    /\ optimizer' = [run |-> 0, step |-> nSaves + 1]
    /\ out' = {"info:saved"}
    /\ UNCHANGED <<pc, runs, metrics_type, args, last_epoch, best_error_rate, sched,
                   epochBound, iter, batch, evalv, mode, nTrained, nEval, intr>>
    /\ UNCHANGED restv

NextSave == SaveCall

SpecSave == InitSave /\ [][NextSave]_vars

\* ------------------------------------------------------- one long fresh run
\* train(num_epoch=MaxSaveEpoch) called once on an empty checkpoint root, from
\* the resume block on: the loop of the main specification, with enough epochs
\* for save_model to reach the directories it deletes.
InitFresh ==
    /\ disk = EmptyDisk
    /\ runs = 1
    /\ metrics_type \in MetricsTypes
    /\ pc = "resume"
    /\ num_epoch = MaxSaveEpoch /\ resume_model = NoPath
    /\ nranks \in 1..MaxRanks /\ local_rank = 0
    /\ model = FreshId(1) /\ optimizer = FreshId(1)
    /\ last_epoch = InitLastEpoch /\ best_error_rate = InitBestErrorRate
    /\ sched = 0
    /\ epoch = 0 /\ epochBound = FALSE /\ iter = 0 /\ batch = 0
    /\ c = 0 /\ l = 0 /\ clBound = FALSE
    /\ mode = "train"
    /\ nTrained = 0 /\ nEval = 0 /\ nSaves = 0
    /\ out = {}
    /\ intr = NoIntr
    /\ NoPretrained
    /\ NoDecoding

NextFresh ==
    \/ ResumeBlock \/ ForNext \/ ForExit \/ EpochInc
    \/ Forward \/ Backward \/ OptStep \/ ZeroGrad \/ BatchTail
    \/ EvalMode \/ Test \/ TestScalars \/ TrainMode \/ LrScalar
    \/ BestStep \/ LastSave \/ SchedStep
    \/ Interrupt \/ InterruptInSave \/ Handler

SpecFresh == InitFresh /\ [][NextFresh]_vars

\* ------------------------------------------- the loads at the start of train
\* train(pretrained_model=..., resume_model=...) up to the first epoch, with the
\* parameters followed name by name.  The checkpoint root is empty or holds the
\* checkpoint of one save_model call; the pretrained model.pt holds any set of
\* names, bare or with the prefix of the wrapper.
PretrainedDir == <<"pretrained", 0>>
NameSets ==
    { { ParamName(pre, n) : n \in B } :
          pre \in BOOLEAN, B \in SUBSET (ModelParams \cup {OtherParam}) }
PretrainedDicts == { [k |-> "ok", names |-> ns] : ns \in NameSets }
OneCheckpoint ==
    SaveModel(EmptyDisk,
              SaveArgs(0, [run |-> 0, step |-> 1, pre |-> FALSE], [run |-> 0, step |-> 1],
                       DefaultErrorType, DefaultErrorRate, DefaultTestLoss, FALSE))

InitLoad ==
    /\ disk \in {EmptyDisk, OneCheckpoint}
    /\ runs = 1
    /\ metrics_type = DefaultErrorType
    /\ pc = "pretrained"
    /\ num_epoch = 0
    /\ resume_model \in {NoPath, Last}
    /\ nranks \in 1..MaxRanks
    /\ local_rank \in 0..(nranks - 1)
    /\ model = FreshId(1) /\ optimizer = FreshId(1)
    /\ last_epoch = InitLastEpoch /\ best_error_rate = InitBestErrorRate
    /\ sched = 0
    /\ epoch = 0 /\ epochBound = FALSE /\ iter = 0 /\ batch = 0
    /\ c = 0 /\ l = 0 /\ clBound = FALSE
    /\ mode = "train"
    /\ nTrained = 0 /\ nEval = 0 /\ nSaves = 0
    /\ out = {"info:train_data"}
    /\ intr = NoIntr
    /\ pretrained_model \in {NoPath, PretrainedDir}
    /\ pretrained_dict \in (IF pretrained_model = NoPath THEN {Missing}
                            ELSE {Missing} \cup PretrainedDicts)
    /\ params = FreshParams
    /\ NoDecoding

NextLoad == LoadPretrained \/ ResumeBlock

SpecLoad == InitLoad /\ [][NextLoad]_vars

\* ------------------------------------------------------------ decoder_result
\* A trainer constructed with either decoder, on any platform, with or without
\* the beam-search library, decodes batch after batch (from __test or evaluate).
\* The library may be installed while the process runs.

\* if self.decoder == "ctc_beam_search" and self.beam_search_decoder is None
WantsBeamDecoder(dec, bsd) == dec = "ctc_beam_search" /\ bsd = "None"
\* the import is attempted: platform.system() != 'Windows'
TriesImport(dec, bsd, plat) == WantsBeamDecoder(dec, bsd) /\ plat # "Windows"
\* the warning branches: ModuleNotFoundError, or Windows
FallsBack(dec, bsd, plat, lib) ==
    WantsBeamDecoder(dec, bsd) /\ (plat = "Windows" \/ ~lib)
\* (variant: the warning branches do not switch the decoder)
DecoderAfterKeeps(dec, bsd, plat, lib) == dec
\* self.decoder when the first part of decoder_result is done
DecoderAfter(dec, bsd, plat, lib) ==
    IF FallsBack(dec, bsd, plat, lib) THEN "ctc_greedy" ELSE dec
\* self.beam_search_decoder when the first part of decoder_result is done
BeamDecoderAfter(dec, bsd, plat, lib) ==
    IF TriesImport(dec, bsd, plat) /\ lib THEN "built" ELSE bsd

InitDecode ==
    /\ disk = EmptyDisk
    /\ runs = 0
    /\ metrics_type = DefaultErrorType
    /\ pc = "decoding"
    /\ num_epoch = 0 /\ resume_model = NoPath /\ nranks = 1 /\ local_rank = 0
    /\ model = FreshId(0) /\ optimizer = FreshId(0)
    /\ last_epoch = InitLastEpoch /\ best_error_rate = InitBestErrorRate
    /\ sched = 0
    /\ epoch = 0 /\ epochBound = FALSE /\ iter = 0 /\ batch = 0
    /\ c = 0 /\ l = 0 /\ clBound = FALSE
    /\ mode = "eval"
    /\ nTrained = 0 /\ nEval = 0 /\ nSaves = 0
    /\ out = {}
    /\ intr = NoIntr
    /\ NoPretrained
    /\ decoder \in Decoders /\ beam_search_decoder = "None"
    /\ platform_system \in Platforms /\ lib_installed \in BOOLEAN
    /\ nDecode = 0 /\ nWarned = 0 /\ nConstruct = 0 /\ used = "none"

\* decoder_result(outs, outs_lens, vocabulary)
DecoderResult ==
    /\ pc = "decoding"
    /\ nDecode < MaxDecodeCalls
    /\ LET dec == DecoderAfter(decoder, beam_search_decoder, platform_system, lib_installed)
           bsd == BeamDecoderAfter(decoder, beam_search_decoder, platform_system,
                                   lib_installed)
       IN  /\ decoder' = dec
           /\ beam_search_decoder' = bsd
           /\ nConstruct' = nConstruct
                  + (IF TriesImport(decoder, beam_search_decoder, platform_system)
                     THEN 1 ELSE 0)
           /\ nWarned' = nWarned
                  + (IF FallsBack(decoder, beam_search_decoder, platform_system,
                                  lib_installed) THEN 1 ELSE 0)
           /\ out' = IF FallsBack(decoder, beam_search_decoder, platform_system,
                                  lib_installed)
                     THEN {"warning:fallback"} ELSE {}
           \* the decoding: greedy_decoder_batch, or the beam-search decoder,
           \* which raises AttributeError when it is None
           /\ IF dec = "ctc_greedy" THEN used' = "ctc_greedy" /\ pc' = pc
              ELSE IF bsd = "None" THEN used' = used /\ pc' = "failed"
              ELSE used' = "ctc_beam_search" /\ pc' = pc
    /\ nDecode' = nDecode + 1
    /\ UNCHANGED <<disk, runs, metrics_type, args, model, optimizer, last_epoch,
                   best_error_rate, sched, loopv, evalv, mode, counts, intr, loadv,
                   platform_system, lib_installed>>

\* the library is installed while the process runs
InstallLibrary ==
    /\ pc = "decoding"
    /\ ~lib_installed
    /\ lib_installed' = TRUE
    /\ out' = {}
    /\ UNCHANGED <<disk, pc, runs, metrics_type, args, model, optimizer, last_epoch,
                   best_error_rate, sched, loopv, evalv, mode, counts, intr, loadv,
                   decoder, beam_search_decoder, platform_system,
                   nDecode, nWarned, nConstruct, used>>

NextDecode == DecoderResult \/ InstallLibrary

SpecDecode == InitDecode /\ [][NextDecode]_vars

\* ------------------------------------------------------------------ claims
NumberedOnDisk == { d \in Numbered : DirExists(disk, d) }

\* C1: after any sequence of save_model calls at most 4 numbered epoch_N
\* directories exist (besides last_model and best_model).  Stated as the claim
\* has it; the checkpoint store does not keep it.
C1_RetentionBound == Cardinality(NumberedOnDisk) <= 4

\* ---- helpers of the claims
IdOf(f) == [run |-> f.run, step |-> f.step]
Intact(dk, d) ==
    DirExists(dk, d) /\ dk[d].mpt.k = "ok" /\ dk[d].opt.k = "ok" /\ dk[d].st.k = "ok"
\* the three files come from one save: same parameters, same optimizer state,
\* and the record written with them
SelfConsistent(dk, d) ==
    /\ Intact(dk, d)
    /\ IdOf(dk[d].mpt) = IdOf(dk[d].opt)
    /\ IdOf(dk[d].st) = IdOf(dk[d].mpt)
\* the resume block reads d to its end
Accepted(dk, d) == ResumeReach(dk, d) = "done"
SameFiles(dk, d, e) ==
    /\ DirExists(dk, d) /\ DirExists(dk, e)
    /\ dk[d].mpt = dk[e].mpt /\ dk[d].opt = dk[e].opt /\ dk[d].st = dk[e].st
Running == pc \notin {"idle", "pretrained", "resume", "failed", "store"}
\* this run has resumed and has written nothing yet: the directory it read is
\* still as it was read
ResumedUntouched == Running /\ resume_model # NoPath /\ nSaves = 0
\* in the first batch of the first epoch this run trains
FirstBatch == pc \in {"forward", "backward", "opt_step"} /\ nTrained = 0
\* best_model is only ever written by the end-of-epoch selection, so a directory
\* holding the files of a self-consistent best_model is an end-of-epoch checkpoint
EndOfEpochCheckpoint(dk, d) == SelfConsistent(dk, Best) /\ SameFiles(dk, d, Best)

\* C2: resumed from a checkpoint written at the end of completed epoch E, the
\* first epoch train trains is E + 1.  Stated as the claim has it; train starts
\* with epoch E again.
C2_ResumeAtNextEpoch ==
    (ResumedUntouched /\ FirstBatch /\ EndOfEpochCheckpoint(disk, resume_model))
        => epoch = disk[resume_model].st.last_epoch + 1

\* C3: resumed from a state record with last_epoch = E and called with
\* num_epoch = E, train performs no training step, no evaluation and no
\* checkpoint write.  Stated as the claim has it, for the checkpoints of
\* completed epochs; train trains epoch E once more.
C3_IdempotentCompletion ==
    (/\ ResumedUntouched
     /\ EndOfEpochCheckpoint(disk, resume_model)
     /\ disk[resume_model].st.last_epoch = num_epoch)
        => (pc \in {"for", "returned"} /\ nTrained = 0 /\ nEval = 0)

\* C4: an interrupt inside the training loop (batch step, evaluation, checkpoint
\* write) makes the coordinator do exactly one more save_model, a non-best one
\* for the current epoch with the last evaluated (error rate, loss) of this run
\* or the placeholders (1.0, 1000); train returns, and last_model holds the
\* three files of that save and is accepted by the resume block.
C4_Rate == IF intr.clBound THEN intr.c ELSE RateOne
C4_Loss == IF intr.clBound THEN intr.l ELSE 1000 * LossOne
C4_InterruptCheckpoint ==
    (intr.at # "" /\ local_rank = 0 /\ pc \notin {"handler", "idle"})
        => /\ pc = "returned"
           /\ nSaves = intr.nSaves + 1
           /\ epoch = intr.epoch
           /\ SameFiles(disk, Last, EpochDir(intr.epoch))
           /\ disk[Last].mpt = Blob(model)
           /\ disk[Last].opt = Blob(optimizer)
           /\ disk[Last].st.k = "ok"
           /\ disk[Last].st.last_epoch = intr.epoch
           /\ disk[Last].st.rate = FormatF(C4_Rate, RateOne)
           /\ disk[Last].st.loss = FormatF(C4_Loss, LossOne)
           /\ Accepted(disk, Last)
           /\ ResumeSource(disk, NoPath) = Last
\* an interrupt in the first epoch, before any evaluation, has been handled
C4_Witness ==
    /\ pc = "returned" /\ local_rank = 0
    /\ intr.at = "forward" /\ ~intr.clBound /\ nEval = 0
    /\ disk[Last].st.rate = RateOne
\* an interrupt inside the end-of-epoch checkpoint write has been handled
C4_WitnessInSave ==
    /\ pc = "returned" /\ local_rank = 0
    /\ intr.at = "save:last_save" /\ intr.clBound
    /\ disk[Last].st.rate = FormatF(c, RateOne)

\* C5: when save_model is stopped or interrupted, every checkpoint directory
\* then on disk is complete and self-consistent or is rejected by the resume
\* block.  Stated as the claim has it; best_model and a rewritten epoch_N are
\* overwritten file by file.
InterruptedInSave == pc = "handler" /\ intr.at \in {"save:batch_tail", "save:best", "save:last_save"}
C5_NoHalfWrittenAccepted ==
    InterruptedInSave
        => \A d \in Dirs :
              DirExists(disk, d) => (SelfConsistent(disk, d) \/ ~Accepted(disk, d))

\* C6: the metric recorded in best_model never increases.  Stated as the claim
\* has it; a resumed run starts from the metric of last_model.
C6_BestMonotone ==
    [][(Intact(disk, Best) /\ Intact(disk', Best))
          => disk'[Best].st.rate <= disk[Best].st.rate]_vars

\* C7: at the end of an epoch best_model is written iff c <= best_error_rate
\* (as it was before), best_error_rate then becomes c, a tie rewrites best_model
\* with the current epoch, and so best_model holds the lowest error rate seen.
\* Stated as the claim has it; the last conjunct fails after a resume.
C7_BestSelection ==
    [][(pc = "best" /\ pc' = "last_save")
          => /\ (disk'[Best] # disk[Best]) <=> (c <= best_error_rate)
             /\ (c <= best_error_rate)
                   => /\ best_error_rate' = c
                      /\ SelfConsistent(disk', Best)
                      /\ disk'[Best].mpt = Blob(model)
                      /\ disk'[Best].st.last_epoch = epoch
                      /\ disk'[Best].st.rate = FormatF(c, RateOne)
             /\ (c > best_error_rate) => best_error_rate' = best_error_rate
             /\ Intact(disk', Best) => disk'[Best].st.rate <= FormatF(c, RateOne)
             /\ (Intact(disk, Best) /\ Intact(disk', Best))
                   => disk'[Best].st.rate <= disk[Best].st.rate]_vars
\* the first three conjuncts alone: what the selection does in one epoch
C7_SelectionStep ==
    [][(pc = "best" /\ pc' = "last_save")
          => /\ (disk'[Best] # disk[Best]) <=> (c <= best_error_rate)
             /\ (c <= best_error_rate)
                   => /\ best_error_rate' = c
                      /\ SelfConsistent(disk', Best)
                      /\ disk'[Best].mpt = Blob(model)
                      /\ disk'[Best].st.last_epoch = epoch
                      /\ disk'[Best].st.rate = FormatF(c, RateOne)
             /\ (c > best_error_rate) => best_error_rate' = best_error_rate]_vars

\* C8 (as stated): a fresh, uninterrupted run with num_epoch = N returns with
\* last_model a mirror of epoch_N, best_model present, and last_epoch = N in the
\* state record of both.  best_model can be missing or name an earlier epoch.
FreshRunReturned ==
    pc = "returned" /\ resume_model = NoPath /\ intr.at = "" /\ local_rank = 0
C8_FinalCheckpointsAsStated ==
    FreshRunReturned
        => /\ SameFiles(disk, Last, EpochDir(num_epoch))
           /\ disk[Last].st.last_epoch = num_epoch
           /\ DirExists(disk, Best)
           /\ disk[Best].st.last_epoch = num_epoch

\* C8 (amended): a fresh, uninterrupted run with num_epoch = N returns with
\* last_model a mirror of epoch_N whose state record has last_epoch = N;
\* best_model is present unless the error rates exceeded 1.0, and its state
\* record names an epoch in 0..N: N exactly when epoch N's error rate is the
\* lowest so far (ties included).
C8_FinalCheckpoints ==
    FreshRunReturned
        => /\ SameFiles(disk, Last, EpochDir(num_epoch))
           /\ SelfConsistent(disk, Last)
           /\ disk[Last].mpt = Blob(model)
           /\ disk[Last].st.last_epoch = num_epoch
           /\ disk[Last].st.rate = FormatF(c, RateOne)
           /\ (c <= RateOne) => DirExists(disk, Best)
           /\ ~DirExists(disk, Best) => best_error_rate = RateOne
           /\ DirExists(disk, Best)
                 => /\ SelfConsistent(disk, Best)
                    /\ disk[Best].st.last_epoch \in 0..num_epoch
                    /\ disk[Best].st.rate = FormatF(best_error_rate, RateOne)
                    /\ (disk[Best].st.last_epoch = num_epoch) <=> (c = best_error_rate)
\* a fresh run of two epochs has returned with best_model naming the first one
C8_Witness ==
    /\ FreshRunReturned /\ num_epoch = 1
    /\ DirExists(disk, Best) /\ disk[Best].st.last_epoch = 0
    /\ disk[Last].st.last_epoch = 1

\* C9: a worker whose rank is not 0 never writes a checkpoint, never evaluates
\* and never emits a log line or a scalar record.  Stated as the claim has it;
\* every rank logs the size of the training data and the resume message.
C9_OnlyCoordinatorActs ==
    local_rank # 0 => (out = {} /\ nSaves = 0 /\ nEval = 0 /\ mode = "train")
\* what does hold of the other ranks: no checkpoint, no evaluation, no scalar
\* record, and no log line inside the loop
C9_WorkerSilentInLoop ==
    local_rank # 0
        => /\ out \subseteq {"info:train_data", "info:resumed"}
           /\ nSaves = 0 /\ nEval = 0 /\ mode = "train"
           /\ pc \notin {"pretrained", "resume", "for", "failed"} => out = {}

\* C10: the resume block reads the path the caller gave, even when last_model
\* exists; without one it reads last_model if that holds both blobs; otherwise
\* training starts from scratch with last_epoch = -1 and best_error_rate = 1.0.
\* Model, optimizer and schedule are restored before any training step.
C10_Source ==
    IF resume_model # NoPath THEN resume_model
    ELSE IF /\ DirExists(disk, Last)
            /\ disk[Last].mpt.k # "none" /\ disk[Last].opt.k # "none" THEN Last
    ELSE NoPath
C11_LacksBlob ==
    /\ resume_model # NoPath
    /\ (~FileExists(disk, resume_model, "mpt") \/ ~FileExists(disk, resume_model, "opt"))
C11_ExplicitResumeFails ==
    [][/\ (pc = "resume" /\ C11_LacksBlob)
            => /\ pc' = "failed"
               /\ model' = FreshId(runs) /\ optimizer' = FreshId(runs)
               /\ disk' = disk
               /\ nTrained' = 0 /\ nSaves' = 0 /\ nEval' = 0
       /\ (pc = "failed") => (pc' = "idle" /\ disk' = disk)]_vars
\* train was pointed at a best_model holding model.pt but no optimizer.pt, and
\* has failed
C11_Witness ==
    /\ pc = "failed" /\ resume_model = Best
    /\ FileExists(disk, Best, "mpt") /\ ~FileExists(disk, Best, "opt")
    /\ model = FreshId(runs) /\ optimizer = FreshId(runs)

\* C12: when a non-best save_model for epoch e returns (the mid-epoch, the
\* end-of-epoch and the interrupt call), last_model holds exactly the three
\* files just written to epoch_e: the parameters and the optimizer state the
\* process holds and a state record of epoch e, none of them left from an
\* earlier or a half-written alias.
C12_NonBestSaveReturns == nSaves' = nSaves + 1 /\ pc # "best" /\ pc' # "handler"
C12_LastMirrorsEpoch ==
    [][C12_NonBestSaveReturns
          => /\ SameFiles(disk', Last, EpochDir(epoch))
             /\ Intact(disk', Last)
             /\ disk'[Last].mpt = Blob(model)
             /\ disk'[Last].opt = Blob(optimizer)
             /\ IdOf(disk'[Last].st) = model
             /\ disk'[Last].st.last_epoch = epoch]_vars
\* a run resumed from last_model has replaced it by its mid-epoch checkpoint
C12_Witness ==
    /\ pc \in {"forward", "eval_mode"} /\ "info:saved" \in out
    /\ runs = 2 /\ nSaves = 1 /\ resume_model = Last
    /\ model.run = 2
    /\ disk[Last].mpt = Blob(model) /\ SameFiles(disk, Last, EpochDir(epoch))

\* C13: a save_model call with best_model = True (the best-model step of the
\* end of an epoch, run to its end or interrupted part-way) changes nothing
\* but the best_model directory: every epoch_N directory and last_model stay
\* as they were, none is created and none is deleted.
C13_BestSaveFrame ==
    [][pc = "best" => \A d \in Dirs \ {Best} : disk'[d] = disk[d]]_vars
\* best_model has just been written for this epoch beside the numbered
\* directory and the last_model of the mid-epoch checkpoint
C13_Witness ==
    /\ pc = "last_save"
    /\ disk[Best].mpt = Blob(model) /\ disk[Best].st.last_epoch = epoch
    /\ DirExists(disk, Last) /\ disk[Last].st.rate = RateOne
    /\ DirExists(disk, EpochDir(epoch))

\* C14: every model.pt that train writes (mid-epoch, best, end-of-epoch and
\* interrupt saves, with one worker or several) holds the parameters under the
\* names of the unwrapped container, so the resume block of a run with any
\* worker count loads it, and a run that has resumed holds the parameters of
\* the model.pt it read.
C14_BareCheckpoints ==
    /\ \A d \in Dirs :
          (DirExists(disk, d) /\ disk[d].mpt.k = "ok")
              => /\ ~disk[d].mpt.pre
                 /\ \A nr \in 1..MaxRanks : LoadsInto(disk[d].mpt, nr)
    /\ (ResumedUntouched /\ nTrained = 0) => model = IdOf(disk[resume_model].mpt)
\* the coordinator of a run with several workers has trained and has written
\* last_model and best_model
C14_Witness ==
    /\ nranks > 1 /\ local_rank = 0 /\ pc = "returned" /\ nTrained > 0
    /\ disk[Last].mpt = Blob(model)
    /\ DirExists(disk, Best) /\ disk[Best].mpt.run = runs

\* C15: a fresh, uninterrupted train(num_epoch = N) makes exactly N passes over
\* the training batches, N evaluations and N end-of-epoch checkpoints.  Stated
\* as the claim has it; range(-1, N) has N + 1 values.
C15_NumEpochPasses ==
    FreshRunReturned
        => /\ nTrained = num_epoch * NumBatches
           /\ nEval = num_epoch
           /\ (num_epoch = 0) => ~DirExists(disk, Last)

\* C16: the pretrained load copies exactly the parameters whose names occur both
\* in the pretrained model.pt and in the model, leaves the others as they were
\* and never fails over names that do not match; the resume block comes after
\* it, so every parameter has the value of the resume checkpoint when both are
\* given.  Stated as the claim has it; with several workers the names compared
\* are those of the wrapper.
C16_Occurs(n) == ParamName(FALSE, n) \in pretrained_dict.names
C16_PretrainedLoad ==
    [][/\ (pc = "pretrained" /\ pretrained_model # NoPath /\ pretrained_dict.k = "ok")
            => /\ pc' = "resume"
               /\ \A n \in ModelParams :
                     params'[n] = IF C16_Occurs(n) THEN "pre" ELSE params[n]
       /\ (pc = "resume" /\ pc' = "for" /\ ResumeSource(disk, resume_model) # NoPath)
            => \A n \in ModelParams : params'[n] = "res"]_vars
\* what does hold: the same with one worker
C16_PretrainedLoadOneWorker ==
    [][/\ (/\ pc = "pretrained" /\ pretrained_model # NoPath
            /\ pretrained_dict.k = "ok" /\ nranks = 1)
            => /\ pc' = "resume"
               /\ \A n \in ModelParams :
                     params'[n] = IF C16_Occurs(n) THEN "pre" ELSE params[n]
       /\ (pc = "resume" /\ pc' = "for" /\ ResumeSource(disk, resume_model) # NoPath)
            => \A n \in ModelParams : params'[n] = "res"]_vars

\* C17: with ctc_beam_search configured and the decoder library missing (or on
\* Windows), the decoder_result call that finds it so switches self.decoder to
\* ctc_greedy, emits the fallback warning and decodes greedily; every later
\* call decodes greedily, does not import or construct the beam-search decoder
\* again and emits no warning, so the warning is emitted exactly once.
C17_Unavailable ==
    /\ decoder = "ctc_beam_search" /\ beam_search_decoder = "None"
    /\ (platform_system = "Windows" \/ ~lib_installed)
C17_FallbackOnce ==
    /\ [](nWarned <= 1)
    /\ [][nDecode' = nDecode + 1
            => /\ C17_Unavailable
                    => /\ decoder' = "ctc_greedy" /\ used' = "ctc_greedy"
                       /\ nWarned = 0 /\ nWarned' = 1
                       /\ "warning:fallback" \in out'
                       /\ pc' = "decoding"
               /\ nWarned = 1
                    => /\ decoder' = "ctc_greedy" /\ used' = "ctc_greedy"
                       /\ nWarned' = 1 /\ out' = {}
                       /\ nConstruct' = nConstruct
                       /\ beam_search_decoder' = "None"
                       /\ pc' = "decoding"]_vars
\* the fallback was taken without the library, the library was installed
\* afterwards, and later calls still decoded greedily with one warning in all
C17_Witness ==
    /\ nDecode >= 3 /\ nWarned = 1 /\ used = "ctc_greedy"
    /\ platform_system = "Linux" /\ lib_installed /\ nConstruct = 1
    /\ beam_search_decoder = "None"

\* C18: on the coordinator of an uninterrupted run the epochs trained are
\* last_epoch + 1, last_epoch + 2, ... one after the other; after the last
\* batch of epoch e and before the first batch of the next epoch (or the
\* return) epoch e is evaluated exactly once and its end-of-epoch checkpoint is
\* written to last_model exactly once, the evaluation first; train returns
\* after the checkpoint of the last epoch.
C18_Coordinator == local_rank = 0 /\ intr.at = "" /\ Running /\ pc # "decoding"
C18_Evaluated ==
    pc \in {"test_scalars", "train_mode", "lr_scalar", "best", "last_save", "sched_step"}
C18_FirstEpoch == last_epoch + 1
C18_CheckpointOf(dk, e) ==
    /\ SameFiles(dk, Last, EpochDir(e))
    /\ dk[Last].mpt = Blob(model)
    /\ dk[Last].st = StateRecord(e, metrics_type, c, l, model)
C18_EpochCycle ==
    /\ []((C18_Coordinator /\ pc \in LoopPcs)
            => /\ epoch \in C18_FirstEpoch..num_epoch
               /\ nTrained \in ((epoch - C18_FirstEpoch) * NumBatches)
                                 ..((epoch - C18_FirstEpoch + 1) * NumBatches)
               /\ nEval = (epoch - C18_FirstEpoch) + (IF C18_Evaluated THEN 1 ELSE 0)
               /\ (pc = "sched_step") => C18_CheckpointOf(disk, epoch))
    /\ []((C18_Coordinator /\ pc = "returned" /\ nTrained > 0)
            => /\ epoch = num_epoch
               /\ nEval = num_epoch - C18_FirstEpoch + 1
               /\ nTrained = nEval * NumBatches
               /\ C18_CheckpointOf(disk, num_epoch))
    /\ [][(C18_Coordinator /\ intr'.at = "" /\ pc # "returned")
            => /\ (pc = "inc") => (epoch' = epoch + 1 /\ epoch' = iter)
               /\ (pc = "for" /\ epochBound /\ pc' = "inc") => epoch' = epoch
               /\ (nEval' # nEval) => (pc = "test" /\ nEval' = nEval + 1)
               /\ (disk'[Last] # disk[Last]) => pc \in {"batch_tail", "last_save"}
               /\ (pc = "last_save")
                     => (disk'[Last] # disk[Last] /\ C18_CheckpointOf(disk', epoch))
               /\ (pc = "sched_step") => pc' = "for"
               /\ (pc' = "returned") => pc = "for"]_vars
\* a fresh run of two epochs has returned on the coordinator
C18_Witness ==
    /\ C18_Coordinator /\ pc = "returned" /\ resume_model = NoPath
    /\ num_epoch = 1 /\ epoch = 1 /\ nEval = 2 /\ nTrained = 2 * NumBatches
    /\ disk[Last].st.last_epoch = 1

\* C19 (as stated): at the end of an epoch the coordinator switches to
\* evaluation mode, evaluates, switches back to training mode, records the
\* loss/error scalars, advances the learning-rate schedule, and only then
\* writes the checkpoints.  The code records the test scalars before it
\* switches back and advances the schedule after the checkpoints.
C19_EndOfEpoch == C18_Coordinator /\ intr'.at = "" /\ pc \in LoopPcs
C19_WritesCheckpoint == pc \in {"best", "last_save"} /\ disk' # disk
C19_OrderAsStated ==
    [][C19_EndOfEpoch
          => /\ (nEval' = nEval + 1) => mode = "eval"
             /\ ("scalar:Test/Cer" \in out') => (mode = "train" /\ C18_Evaluated)
             /\ (sched' # sched) => (mode = "train" /\ C18_Evaluated)
             /\ C19_WritesCheckpoint => sched = epoch + 1]_vars

\* C19 (amended): the order is evaluation mode, evaluator, test scalars,
\* training mode, learning-rate scalar, best_model if selected, the last
\* checkpoint, and only then one step of the schedule.
C19_Order ==
    [][C19_EndOfEpoch
          => /\ (pc = "eval_mode") => (mode' = "eval" /\ pc' = "test")
             /\ (nEval' = nEval + 1) => (mode = "eval" /\ pc' = "test_scalars")
             /\ ("scalar:Test/Cer" \in out' \/ "scalar:Test/Loss" \in out')
                   => (mode = "eval" /\ C18_Evaluated /\ pc' = "train_mode")
             /\ (mode = "eval" /\ mode' = "train")
                   => (pc = "train_mode" /\ pc' = "lr_scalar")
             /\ ("scalar:Train/lr" \in out')
                   => (mode = "train" /\ C18_Evaluated /\ pc' = "best")
             /\ C19_WritesCheckpoint => (mode = "train" /\ sched = epoch)
             /\ (pc = "best") => (pc' = "last_save" /\ disk'[Last] = disk[Last])
             /\ (pc = "last_save") => (pc' = "sched_step" /\ sched' = sched)
             /\ (sched' # sched)
                   => /\ pc = "sched_step" /\ sched = epoch /\ sched' = epoch + 1
                      /\ disk' = disk /\ C18_CheckpointOf(disk, epoch)]_vars
\* the end of an epoch is done: the checkpoints are written, the schedule is
\* advanced, best_model is the one of this epoch
C19_Witness ==
    /\ C18_Coordinator /\ pc = "for" /\ epochBound /\ nEval = 1
    /\ sched = epoch + 1 /\ mode = "train"
    /\ C18_CheckpointOf(disk, epoch) /\ disk[Best].st.last_epoch = epoch

\* C20: every checkpoint records the best_error_rate the writing run holds, so
\* that the resume block restores it, and a resumed run never replaces
\* best_model by a model with a higher error rate.  Stated as the claim has
\* it; the record holds the error rate passed to save_model (the one of the
\* epoch, or the default), which the resume block reads as best_error_rate.
C20_BestPersisted ==
    [][/\ \A d \in Dirs :
            (disk'[d].st # disk[d].st /\ disk'[d].st.k = "ok")
                => ResumedBestErrorRate(disk'[d].st) = FormatF(best_error_rate', RateOne)
       /\ (/\ pc = "best" /\ resume_model # NoPath
           /\ Intact(disk, Best) /\ Intact(disk', Best))
                => disk'[Best].st.rate <= disk[Best].st.rate]_vars

\* C21: in every state of train, also directly after a resume from a
\* checkpoint save_model has written, the epoch counter is at least -1 and
\* best_error_rate lies in [0, 1], the evaluator returning error rates >= 0.
\* Stated as the claim has it; the resume block takes the error rate of the
\* last evaluated epoch, which may exceed 1, as best_error_rate.
C21_StateRanges ==
    /\ last_epoch >= 0 - 1
    /\ epochBound => epoch >= 0 - 1
    /\ 0 <= best_error_rate /\ best_error_rate <= RateOne

\* C22: for every worker and every batch of the loader the loop performs one
\* forward pass, one backward pass, one optimizer step and one gradient reset,
\* in that order, whatever the rank and whether or not the batch is logged or
\* followed by a mid-epoch checkpoint; so the number of optimizer steps of a
\* worker depends only on the number of batches it has been given.
C22_InBatch == pc \in {"forward", "backward", "opt_step", "zero_grad", "batch_tail"}
C22_BatchesBegun == (epoch - (last_epoch + 1)) * NumBatches + batch
C22_OneStepPerBatch ==
    /\ [](C22_InBatch
            => nTrained = C22_BatchesBegun
                            + (IF pc \in {"zero_grad", "batch_tail"} THEN 1 ELSE 0))
    /\ [][(C22_InBatch /\ pc' # "handler")
            => /\ (pc = "forward") => (pc' = "backward" /\ nTrained' = nTrained)
               /\ (pc = "backward") => (pc' = "opt_step" /\ nTrained' = nTrained)
               /\ (pc = "opt_step") => (pc' = "zero_grad" /\ nTrained' = nTrained + 1)
               /\ (pc = "zero_grad") => (pc' = "batch_tail" /\ nTrained' = nTrained)
               /\ (pc = "batch_tail")
                     => /\ nTrained' = nTrained
                        /\ IF batch + 1 < NumBatches
                           THEN pc' = "forward" /\ batch' = batch + 1
                           ELSE pc' \in {"eval_mode", "sched_step"}]_vars
\* a worker that is not the coordinator has gone through all batches of an
\* epoch, the coordinator's copy of which was logged and checkpointed
C22_Witness ==
    /\ nranks > 1 /\ local_rank # 0 /\ intr.at = ""
    /\ pc = "sched_step" /\ nTrained = NumBatches

\* C23: in a fresh run, whose epochs are written one after the other, when a
\* non-best save_model call of epoch e returns the numbered directories on
\* disk are exactly epoch_max(0,e-2) .. epoch_e; the call has deleted
\* epoch_(e-3) if it was there and no other numbered directory.
C23_NonBestSaveReturns ==
    /\ nSaves' = nSaves + 1
    /\ \/ pc \in {"batch_tail", "last_save"} /\ pc' # "handler"
       \/ pc = "handler"
C23_Window(e) == { EpochDir(n) : n \in (IF e > 2 THEN e - 2 ELSE 0)..e }
C23_SlidingWindow ==
    [][C23_NonBestSaveReturns
          => /\ NumberedOnDisk' = C23_Window(epoch)
             /\ (NumberedOnDisk \ NumberedOnDisk') \subseteq {EpochDir(epoch - 3)}]_vars
\* the end-of-epoch save of epoch 3 or later has returned: the directory three
\* epochs back is gone
C23_Witness ==
    /\ pc = "sched_step" /\ epoch >= 3 /\ intr.at = ""
    /\ ~DirExists(disk, EpochDir(epoch - 3))
    /\ NumberedOnDisk = C23_Window(epoch)

\* C24: during epoch e the coordinator writes a mid-epoch checkpoint exactly
\* at the batch indices that are positive multiples of 10000, never at batch
\* 0; the checkpoint is a non-best one of epoch e that refreshes last_model
\* and leaves best_model and best_error_rate as they are.  No other statement
\* of the batch loop, and no other worker, writes.
C24_AtPeriod == BatchIdOf(batch) > 0 /\ BatchIdOf(batch) % 10000 = 0
C24_MidEpochCheckpoint ==
    [][/\ (pc = "batch_tail" /\ local_rank = 0 /\ pc' # "handler")
            => /\ C24_AtPeriod <=> (nSaves' = nSaves + 1)
               /\ ~C24_AtPeriod => (disk' = disk /\ nSaves' = nSaves)
               /\ C24_AtPeriod
                    => /\ Intact(disk', EpochDir(epoch))
                       /\ disk'[EpochDir(epoch)].st.last_epoch = epoch
                       /\ disk'[EpochDir(epoch)].mpt = Blob(model)
                       /\ disk'[EpochDir(epoch)].opt = Blob(optimizer)
                       /\ SameFiles(disk', Last, EpochDir(epoch))
                       /\ disk'[Best] = disk[Best]
                       /\ best_error_rate' = best_error_rate
       /\ (\/ pc \in {"forward", "backward", "opt_step", "zero_grad"}
           \/ pc = "batch_tail" /\ local_rank # 0)
            => (disk' = disk /\ nSaves' = nSaves /\ best_error_rate' = best_error_rate)]_vars
\* the coordinator has passed batch 10000 of an epoch for which best_model
\* exists: last_model is the checkpoint of that batch, best_model is older
C24_Witness ==
    /\ local_rank = 0 /\ intr.at = "" /\ pc = "forward"
    /\ batch > 0 /\ BatchIdOf(batch - 1) = 10000
    /\ "info:saved" \in out
    /\ Intact(disk, Best) /\ Intact(disk, Last)
    /\ disk[Last].mpt = Blob(model) /\ disk[Best].mpt # Blob(model)

\* C25: the state record of every checkpoint train writes (end of epoch, best,
\* mid-epoch, interrupt) names the metric kind configured for the run: its one
\* metric key is test_cer under 'cer' and test_wer under 'wer'.  Stated as the
\* claim has it; the mid-epoch and the interrupt call leave error_type at its
\* default.
C25_RecordNamesMetric ==
    \A d \in Dirs :
        (DirExists(disk, d) /\ disk[d].st.k = "ok") => disk[d].st.key = metrics_type

\* C26: every worker, coordinator or not, advances the learning-rate schedule
\* exactly once per completed epoch, after the batches of the epoch and, on
\* the coordinator, after its evaluation and its checkpoint writes; so in the
\* body of every epoch, its first batch included, the scheduler epoch count of
\* every worker is the epoch number, and an interrupted epoch does not
\* advance the schedule.
C26_InRun == Running /\ pc \notin {"decoding", "returned"}
C26_SchedulePerEpoch ==
    /\ []((Running /\ pc \in LoopPcs) => sched = epoch)
    /\ []((Running /\ intr.at # "") => sched = intr.epoch)
    /\ []((Running /\ intr.at = "" /\ pc \in {"for", "inc", "returned"} /\ epochBound)
            => sched = last_epoch + 1 + (nTrained \div NumBatches))
    /\ [][C26_InRun
            => /\ (sched' # sched)
                    => /\ pc = "sched_step" /\ sched' = sched + 1
                       /\ nTrained = (epoch - last_epoch) * NumBatches
                       /\ (local_rank = 0)
                             => (nEval = epoch - last_epoch /\ C18_CheckpointOf(disk, epoch))
               /\ (pc = "sched_step" /\ pc' # "handler")
                    => (sched' = sched + 1 /\ pc' = "for")]_vars
\* a worker that is not the coordinator is at the first batch of its second
\* epoch, the schedule advanced once
C26_Witness ==
    /\ nranks > 1 /\ local_rank # 0 /\ intr.at = ""
    /\ pc = "forward" /\ batch = 0 /\ nTrained = NumBatches
    /\ sched = epoch /\ sched = last_epoch + 2

====
